---- MODULE Spec2Model ----
(***************************************************************************)
(* MangaPDF: the PDF assembly pipeline (PDFGenerator.generate_pdf) over    *)
(* the image compressor (ImageProcessor.compress_image).                   *)
(*                                                                         *)
(* One generate_pdf call is modelled statement by statement: pc is the     *)
(* position inside the call, the other variables are its arguments, its    *)
(* locals, the generator's progress_callback field and the file at         *)
(* output_path.  The filesystem holding the inputs is chosen at Init.      *)
(***************************************************************************)
EXTENDS Integers, Sequences, FiniteSets, TLC

\* ---------------------------------------------------------------- bounds

\* Longest image_paths list a call is given.
MaxLen == 3

\* Longest image_paths list of the calls whose outcomes are compared.
MaxHistLen == 2

\* Largest value sequence_counter reaches (new-sequence stops there).
MaxCounter == 7

\* Most images ever added to the window.
MaxImages == 3

\* Longest batch of files added at once.
MaxBatch == 2

\* Most sequences while batches are added.
MaxBatchSeqs == 2

\* Most PDFWorker threads started and not yet handled by _on_finished.
MaxWorkers == 2

\* ------------------------------------------------------- inputs, values

\* The input paths a caller may pass (repeats allowed in one list).
Paths == {"p1", "p2", "p3"}

\* What Image.open finds at a path: a decodable image, or a missing or
\* corrupt file (Image.open raises).
FileKinds == {"image", "unreadable"}

\* page_size argument values (MainWindow._get_page_size_value).
PageSizeArgs == {"original", "a4", "letter"}

Qualities == {90}

Margins == {10}

\* The file at output_path when the call starts.
OutBefore == {"absent", "old"}

\* Observers a caller may register; "None" is the field's initial value.
Observers == {"cb"}

\* All lists of length 0..n over S.
SeqsUpTo(S, n) == UNION {[1..k -> S] : k \in 0..n}

\* ------------------------------------------------- ImageProcessor (pure)

\* compress_image(filepath, quality): the JPEG bytes of the image at
\* filepath (never empty), or b'' when anything raised.  Bytes are a
\* sequence; the encoded image is one element naming source and quality.
compress_image(files, filepath, q) ==
    IF files[filepath] = "image"
    THEN << [src |-> filepath, quality |-> q] >>
    ELSE << >>

\* ---------------------------------------------------- PDFGenerator (pure)

\* PAGE_SIZES, in tenths of a millimetre; "original" maps to None.
PAGE_SIZES ==
    [a4 |-> <<2100, 2970>>, letter |-> <<2159, 2794>>]

\* PAGE_SIZES.get(page_size, (210, 297))
PageDim(ps) ==
    IF ps \in DOMAIN PAGE_SIZES THEN PAGE_SIZES[ps] ELSE <<2100, 2970>>

NoLayout == [fit |-> "unset", pagesize |-> <<0, 0>>, border |-> 0]

\* The layout function with the border left out.
LayoutFunNoBorder(ps, margin) ==
    IF ps = "original"
    THEN [fit |-> "native", pagesize |-> <<0, 0>>, border |-> 0]
    ELSE [fit |-> "into", pagesize |-> PageDim(ps), border |-> 0]

\* The layout function chosen at lines 78-101.
LayoutFun(ps, margin) ==
    IF ps = "original"
    THEN [fit |-> "native", pagesize |-> <<0, 0>>, border |-> 0]
    ELSE [fit |-> "into", pagesize |-> PageDim(ps), border |-> margin]

NoPdf == [layout |-> NoLayout, pages |-> << >>]

\* img2pdf.convert(processed_images, layout_fun): one page per buffer, in
\* list order, the buffer embedded as it is.
Convert(images, layout) == [layout |-> layout, pages |-> images]

\* The progress events generate_pdf reports.
Event(c, t, kind, text) ==
    [current |-> c, total |-> t, kind |-> kind, text |-> text]

\* PageEvent counting pages from zero.
PageEventZeroBased(idx, tot) == Event(idx, tot, "processing", "")

\* PageEvent counting one page too many.
PageEventAhead(idx, tot) == Event(idx + 2, tot, "processing", "")

\* line 65
PageEvent(idx, tot) == Event(idx + 1, tot, "processing", "")

\* line 75
AssemblingEvent(tot) == Event(tot, tot, "generating", "")

\* line 110
DoneEvent(tot) == Event(tot, tot, "done", "")

\* line 115
FailureEvent(e) == Event(0, 0, "failed", e)

\* Collect with the buffer put in front of the list (pages reversed).
CollectPrepend(images, img_data) ==
    IF img_data # << >> THEN << img_data >> \o images ELSE images

\* Collect without the emptiness test: a failed page is kept.
CollectAlways(images, img_data) == Append(images, img_data)

\* lines 69-70: if img_data: processed_images.append(img_data)
Collect(images, img_data) ==
    IF img_data # << >> THEN Append(images, img_data) ELSE images

\* _report_progress: the observer is called only when one is registered.
Deliver(cb, evs, ev) == IF cb # "None" THEN Append(evs, ev) ELSE evs

\* ----------------------------------------------------------------- state

VARIABLES
    fs,                 \* [Paths -> FileKinds]: the input files
    progress_callback,  \* PDFGenerator.progress_callback
    pc,                 \* position of the generate_pdf call
    image_paths, output_before, page_size, quality, margin_mm,  \* arguments
    total, i, processed_images, layout_fun, pdf_bytes,          \* locals
    exc,                \* the exception being handled, "" when none
    result,             \* "none" while running, else "True" / "False"
    reported,           \* the _report_progress calls of this call, in order
    events,             \* the events delivered to the observer, in order
    out_file,           \* the file at output_path: [state, data]
    opens, writes       \* how often the call opened / wrote output_path

vars == << fs, progress_callback, pc, image_paths, output_before, page_size,
           quality, margin_mm, total, i, processed_images, layout_fun,
           pdf_bytes, exc, result, reported, events, out_file, opens, writes >>

args == << image_paths, output_before, page_size, quality, margin_mm >>

\* The state of the other parts of the program: each specification below
\* moves one part and leaves the rest as it is.
VARIABLES
    prev,               \* the last finished generate_pdf call (history)
    uuids,              \* uuid4 values drawn for images so far
    added,              \* the last batch _add_images took (history)
    fn_op, fn_in, fn_out,        \* ImageProcessor / layout: operation applied,
                                 \* the source image, the result
    sequences,          \* MainWindow.sequences: list of [id, name, images]
    current_sequence_id,         \* MainWindow.current_sequence_id
    sequence_counter,   \* MainWindow.sequence_counter
    cards,              \* DraggableGridWidget.cards: the image ids, in order
    drop,               \* the last dropEvent handled (history)
    is_processing,      \* MainWindow.is_processing
    generate_btn,       \* generate_btn.isEnabled()
    generate_all_btn,   \* generate_all_btn.isEnabled()
    mpc,                \* position of the main (GUI) thread
    workers,            \* PDFWorker threads inside generate_pdf
    pending,            \* finished signals queued to the main thread
    all_seqs,           \* non_empty of the running _generate_all_pdfs
    all_k,              \* its loop index
    tail_page_enabled,  \* MainWindow.tail_page_enabled
    tail_page_path,     \* MainWindow.tail_page_path
    tail_exists,        \* os.path.exists of the file chosen as tail page
    worker_job,         \* PDFWorker.images and .output_path of the running
                        \* worker
    emitted,            \* finished signals queued to the main thread: their
                        \* success flags
    all_call,           \* arguments of the loop's generate_pdf call
    all_outputs,        \* output paths the running loop has used
    detached            \* sequences non_empty still holds that were deleted

histVars == << prev, uuids, added >>

fnVars == << fn_op, fn_in, fn_out >>

seqVars == << sequences, current_sequence_id, sequence_counter >>

gridVars == << cards, drop >>

jobVars == << is_processing, generate_btn, generate_all_btn, mpc, workers,
              pending,              all_seqs, all_k >>

tailVars == << tail_page_enabled, tail_page_path, tail_exists >>

runVars == << worker_job, emitted, all_call, all_outputs, detached >>

\* Everything but the generate_pdf call.
others == << histVars, fnVars, seqVars, gridVars, jobVars, tailVars,
             runVars >>

allVars == << vars, others >>

NoCall ==
    [valid |-> FALSE, args |-> << >>, exc |-> "", result |-> "none",
     events |-> << >>]

\* A file Image.open cannot decode.
NoImage == [w |-> 0, h |-> 0, mode |-> "none", px |-> "none"]

NoInput == [src |-> NoImage, arg |-> 0, ps |-> "none"]

NoResult == [ok |-> FALSE]

NoBatch == << >>

NoDrop == [source |-> 0, on |-> 0, half |-> "none", before |-> << >>]

HistQuiet ==
    /\ prev = NoCall
    /\ uuids = 0
    /\ added = NoBatch

FnQuiet ==
    /\ fn_op = "none"
    /\ fn_in = NoInput
    /\ fn_out = NoResult

\* MainWindow.__init__, lines 150-156
SeqQuiet ==
    /\ sequences = << [id |-> 1, name |-> 1, images |-> << >>] >>
    /\ current_sequence_id = 1
    /\ sequence_counter = 1

GridQuiet ==
    /\ cards = << >>
    /\ drop = NoDrop

JobQuiet ==
    /\ is_processing = FALSE
    /\ generate_btn = FALSE
    /\ generate_all_btn = FALSE
    /\ mpc = "idle"
    /\ workers = 0
    /\ pending = 0
    /\ all_seqs = << >>
    /\ all_k = 0

NoJob == [images |-> << >>, output_path |-> ""]

NoAllCall == [images |-> << >>, output_path |-> << >>]

\* MainWindow.__init__, lines 163-164, with no settings stored; the file
\* a tail page will be chosen from exists.
TailQuiet ==
    /\ tail_page_enabled = FALSE
    /\ tail_page_path = ""
    /\ tail_exists = TRUE

RunQuiet ==
    /\ worker_job = NoJob
    /\ emitted = << >>
    /\ all_call = NoAllCall
    /\ all_outputs = << >>
    /\ detached = {}

Init ==
    /\ fs \in [Paths -> FileKinds]
    /\ progress_callback = "None"
    /\ pc = "idle"
    /\ image_paths = << >>
    /\ output_before = "absent"
    /\ page_size = "original"
    /\ quality = 90
    /\ margin_mm = 0
    /\ total = 0
    /\ i = 0
    /\ processed_images = << >>
    /\ layout_fun = NoLayout
    /\ pdf_bytes = NoPdf
    /\ exc = ""
    /\ result = "none"
    /\ reported = << >>
    /\ events = << >>
    /\ out_file = [state |-> "absent", data |-> NoPdf]
    /\ opens = 0
    /\ writes = 0
    /\ HistQuiet
    /\ FnQuiet
    /\ SeqQuiet
    /\ GridQuiet
    /\ JobQuiet
    /\ TailQuiet
    /\ RunQuiet

\* --------------------------------------------------------------- actions

\* set_progress_callback(callback), between calls.
SetProgressCallback(cb) ==
    /\ pc = "idle"
    /\ progress_callback' = cb
    /\ UNCHANGED << fs, pc, image_paths, output_before, page_size, quality,
                    margin_mm, total, i, processed_images, layout_fun,
                    pdf_bytes, exc, result, reported, events, out_file,
                    opens, writes >>
    /\ UNCHANGED others

\* generate_pdf(image_paths, output_path, page_size, quality, margin_mm) is
\* entered; before is the state of output_path at that moment.
CallArgs(paths, before, ps, q, m) ==
    /\ pc = "idle"
    /\ pc' = "entry"
    /\ image_paths' = paths
    /\ output_before' = before
    /\ page_size' = ps
    /\ quality' = q
    /\ margin_mm' = m
    /\ total' = 0
    /\ i' = 0
    /\ processed_images' = << >>
    /\ layout_fun' = NoLayout
    /\ pdf_bytes' = NoPdf
    /\ exc' = ""
    /\ result' = "none"
    /\ reported' = << >>
    /\ events' = << >>
    /\ out_file' = [state |-> before, data |-> NoPdf]
    /\ opens' = 0
    /\ writes' = 0

\* A caller enters generate_pdf.
Call(paths, before, ps, q, m) ==
    /\ CallArgs(paths, before, ps, q, m)
    /\ UNCHANGED << fs, progress_callback >>
    /\ UNCHANGED others

\* _report_progress(ev) as part of a step.
Report(ev) ==
    /\ reported' = Append(reported, ev)
    /\ events' = Deliver(progress_callback, events, ev)

\* return value, leaving the call.
ReturnWith(v) ==
    /\ pc' = "returned"
    /\ result' = v

\* Raise with no handler around it: the exception leaves the call, which
\* ends with no return value.
RaiseUncaught(e) ==
    /\ pc' = "returned"
    /\ exc' = e

\* A library or I/O call of the try block raises e.
Raise(e) ==
    /\ pc' = "except"
    /\ exc' = e

\* Entry answering success for an empty list.
EntryEmptySucceeds ==
    /\ pc = "entry"
    /\ IF image_paths = << >>
       THEN /\ ReturnWith("True")
            /\ UNCHANGED << total >>
       ELSE /\ pc' = "report"
            /\ total' = Len(image_paths)
            /\ UNCHANGED << result >>
    /\ UNCHANGED << fs, progress_callback, args, i, processed_images,
                    layout_fun, pdf_bytes, exc, reported, events, out_file,
                    opens, writes >>
    /\ UNCHANGED others

\* Entry opening the output file before the pages are processed.
EntryOpensOutput ==
    /\ pc = "entry"
    /\ IF image_paths = << >>
       THEN /\ ReturnWith("False")
            /\ UNCHANGED << total, out_file, opens >>
       ELSE /\ pc' = "report"
            /\ total' = Len(image_paths)
            /\ out_file' = [state |-> "empty", data |-> NoPdf]
            /\ opens' = opens + 1
            /\ UNCHANGED << result >>
    /\ UNCHANGED << fs, progress_callback, args, i, processed_images,
                    layout_fun, pdf_bytes, exc, reported, events, writes >>
    /\ UNCHANGED others

\* lines 57-62
Entry ==
    /\ pc = "entry"
    /\ IF image_paths = << >>
       THEN /\ ReturnWith("False")
            /\ UNCHANGED << total >>
       ELSE /\ pc' = "report"
            /\ total' = Len(image_paths)
            /\ UNCHANGED << result >>
    /\ UNCHANGED << fs, progress_callback, args, i, processed_images,
                    layout_fun, pdf_bytes, exc, reported, events, out_file,
                    opens, writes >>
    /\ UNCHANGED others

\* lines 64-65: the loop head and the progress report of page i+1.
ReportPage ==
    /\ pc = "report"
    /\ i < total
    /\ Report(PageEvent(i, total))
    /\ pc' = "compress"
    /\ UNCHANGED << fs, progress_callback, args, total, i, processed_images,
                    layout_fun, pdf_bytes, exc, result, out_file, opens,
                    writes >>
    /\ UNCHANGED others

\* lines 68-70: compress the page and keep a non-empty buffer.
CompressPage ==
    /\ pc = "compress"
    /\ processed_images' =
           Collect(processed_images,
                   compress_image(fs, image_paths[i + 1], quality))
    /\ i' = i + 1
    /\ pc' = "report"
    /\ UNCHANGED << fs, progress_callback, args, total, layout_fun, pdf_bytes,
                    exc, result, reported, events, out_file, opens, writes >>
    /\ UNCHANGED others

\* CheckPages without the test for an empty page list.
CheckPagesNoTest ==
    /\ pc = "report"
    /\ i = total
    /\ Report(AssemblingEvent(total))
    /\ pc' = "layout"
    /\ UNCHANGED << fs, progress_callback, args, total, i, processed_images,
                    layout_fun, pdf_bytes, exc, result, out_file, opens,
                    writes >>
    /\ UNCHANGED others

\* lines 72-75: the loop is over.
CheckPages ==
    /\ pc = "report"
    /\ i = total
    /\ IF processed_images = << >>
       THEN /\ ReturnWith("False")
            /\ UNCHANGED << reported, events >>
       ELSE /\ Report(AssemblingEvent(total))
            /\ pc' = "layout"
            /\ UNCHANGED << result >>
    /\ UNCHANGED << fs, progress_callback, args, total, i, processed_images,
                    layout_fun, pdf_bytes, exc, out_file, opens, writes >>
    /\ UNCHANGED others

\* lines 78-101
Layout ==
    /\ pc = "layout"
    /\ \/ /\ layout_fun' = LayoutFun(page_size, margin_mm)
          /\ pc' = "convert"
          /\ UNCHANGED << exc >>
       \/ /\ Raise("layout")
          /\ UNCHANGED << layout_fun >>
    /\ UNCHANGED << fs, progress_callback, args, total, i, processed_images,
                    pdf_bytes, result, reported, events, out_file, opens,
                    writes >>
    /\ UNCHANGED others

\* line 104
ConvertPdf ==
    /\ pc = "convert"
    /\ \/ /\ pdf_bytes' = Convert(processed_images, layout_fun)
          /\ pc' = "open"
          /\ UNCHANGED << exc >>
       \/ /\ Raise("convert")
          /\ UNCHANGED << pdf_bytes >>
    /\ UNCHANGED << fs, progress_callback, args, total, i, processed_images,
                    layout_fun, result, reported, events, out_file, opens,
                    writes >>
    /\ UNCHANGED others

\* line 107: open(output_path, 'wb') creates or truncates the file.
OpenOutput ==
    /\ pc = "open"
    /\ \/ /\ out_file' = [state |-> "empty", data |-> NoPdf]
          /\ opens' = opens + 1
          /\ pc' = "write"
          /\ UNCHANGED << exc >>
       \/ /\ Raise("open")
          /\ UNCHANGED << out_file, opens >>
    /\ UNCHANGED << fs, progress_callback, args, total, i, processed_images,
                    layout_fun, pdf_bytes, result, reported, events, writes >>
    /\ UNCHANGED others

\* line 108: f.write(pdf_bytes); a failing write leaves a truncated file.
WriteOutput ==
    /\ pc = "write"
    /\ writes' = writes + 1
    /\ \/ /\ out_file' = [state |-> "complete", data |-> pdf_bytes]
          /\ pc' = "final"
          /\ UNCHANGED << exc >>
       \/ /\ out_file' = [state |-> "partial", data |-> NoPdf]
          /\ Raise("write")
    /\ UNCHANGED << fs, progress_callback, args, total, i, processed_images,
                    layout_fun, pdf_bytes, result, reported, events, opens >>
    /\ UNCHANGED others

\* Finish returning success without the completion report.
FinishSilent ==
    /\ pc = "final"
    /\ ReturnWith("True")
    /\ UNCHANGED << fs, progress_callback, args, total, i, processed_images,
                    layout_fun, pdf_bytes, exc, reported, events, out_file,
                    opens, writes >>
    /\ UNCHANGED others

\* lines 110-111
Finish ==
    /\ pc = "final"
    /\ Report(DoneEvent(total))
    /\ ReturnWith("True")
    /\ UNCHANGED << fs, progress_callback, args, total, i, processed_images,
                    layout_fun, pdf_bytes, exc, out_file, opens, writes >>
    /\ UNCHANGED others

\* Except returning failure without the failure report.
ExceptSilent ==
    /\ pc = "except"
    /\ ReturnWith("False")
    /\ UNCHANGED << fs, progress_callback, args, total, i, processed_images,
                    layout_fun, pdf_bytes, exc, reported, events, out_file,
                    opens, writes >>
    /\ UNCHANGED others

\* lines 113-116
Except ==
    /\ pc = "except"
    /\ Report(FailureEvent(exc))
    /\ ReturnWith("False")
    /\ UNCHANGED << fs, progress_callback, args, total, i, processed_images,
                    layout_fun, pdf_bytes, exc, out_file, opens, writes >>
    /\ UNCHANGED others

\* The caller has the return value: the call's arguments and locals are gone,
\* the generator (its progress_callback) is free for the next call.
ReturnCore ==
    /\ pc = "returned"
    /\ pc' = "idle"
    /\ image_paths' = << >>
    /\ output_before' = "absent"
    /\ page_size' = "original"
    /\ quality' = 90
    /\ margin_mm' = 0
    /\ total' = 0
    /\ i' = 0
    /\ processed_images' = << >>
    /\ layout_fun' = NoLayout
    /\ pdf_bytes' = NoPdf
    /\ exc' = ""
    /\ result' = "none"
    /\ reported' = << >>
    /\ events' = << >>
    /\ out_file' = [state |-> "absent", data |-> NoPdf]
    /\ opens' = 0
    /\ writes' = 0
    /\ UNCHANGED << fs, progress_callback >>

Return ==
    /\ ReturnCore
    /\ UNCHANGED others

Next ==
    \/ \E cb \in Observers : SetProgressCallback(cb)
    \/ \E paths \in SeqsUpTo(Paths, MaxLen), before \in OutBefore,
          ps \in PageSizeArgs, q \in Qualities, m \in Margins :
          Call(paths, before, ps, q, m)
    \/ Entry
    \/ ReportPage
    \/ CompressPage
    \/ CheckPages
    \/ Layout
    \/ ConvertPdf
    \/ OpenOutput
    \/ WriteOutput
    \/ Finish
    \/ Except
    \/ Return

Spec == Init /\ [][Next]_vars

\* ------------------------------------------- two calls on one generator

\* The caller has the return value, and the call is remembered: its
\* arguments, the exception its library and I/O calls raised (none: ""), its
\* return value and the events its observer received.
ReturnRecorded ==
    /\ ReturnCore
    /\ prev' = [valid |-> TRUE,
                args |-> << image_paths, output_before, page_size, quality,
                            margin_mm >>,
                exc |-> exc,
                result |-> result,
                events |-> events]
    /\ UNCHANGED << uuids, added, fnVars, seqVars, gridVars, jobVars,
                    tailVars, runVars >>

\* Calls on one PDFGenerator object, one after another, with observer
\* registrations between them (PDFWorker.run registers one before its call,
\* MainWindow._generate_all_pdfs registers none).
NextCalls ==
    \/ \E cb \in Observers : SetProgressCallback(cb)
    \/ \E paths \in SeqsUpTo(Paths, MaxHistLen), q \in Qualities,
          m \in Margins :
          Call(paths, "absent", "original", q, m)
    \/ Entry
    \/ ReportPage
    \/ CompressPage
    \/ CheckPages
    \/ Layout
    \/ ConvertPdf
    \/ OpenOutput
    \/ WriteOutput
    \/ Finish
    \/ Except
    \/ ReturnRecorded

SpecCalls == Init /\ [][NextCalls]_allVars

\* C11: a call with the arguments of the call before it, on the same
\* filesystem and with the same outcome of its library and I/O calls,
\* returns the same value and delivers the same progress events, whatever
\* was registered or called in between.
C11_SameCallSameOutcome ==
    (/\ pc = "returned"
     /\ prev.valid
     /\ prev.args = << image_paths, output_before, page_size, quality,
                       margin_mm >>
     /\ prev.exc = exc)
        => /\ prev.result = result
           /\ prev.events = events

\* ------------------------------------------------ MainWindow: sequences

MAX_SEQUENCES == 5

\* The main thread is in an event loop that takes user input: the
\* application's own, or QApplication.processEvents() of the generate-all
\* loop (line 847).  Handlers run to their end from there, modal dialogs
\* included.
UiEvents == mpc \in {"idle", "all_events"}

SeqIds(seqs) == {seqs[k].id : k \in DOMAIN seqs}

\* Position of the sequence _get_current_sequence returns: the first one
\* with the current id, else the first one.
CurrentIndex(seqs, cur) ==
    IF cur \in SeqIds(seqs)
    THEN CHOOSE k \in DOMAIN seqs :
             /\ seqs[k].id = cur
             /\ \A j \in 1..(k - 1) : seqs[j].id # cur
    ELSE 1

\* _get_current_sequence, lines 176-180
GetCurrentSequence(seqs, cur) == seqs[CurrentIndex(seqs, cur)]

\* seq['images'] = imgs, seq the current sequence
SetImages(seqs, cur, imgs) ==
    [seqs EXCEPT ![CurrentIndex(seqs, cur)].images = imgs]

IsNonEmpty(seq) == Len(seq.images) > 0

\* non_empty = [s for s in self.sequences if len(s['images']) > 0]
NonEmpty(seqs) == SelectSeq(seqs, IsNonEmpty)

\* _render_image_grid, lines 739-756: the grid holds one card per image of
\* the current sequence, in list order.
RenderImageGrid(seqs, cur) ==
    LET imgs == GetCurrentSequence(seqs, cur).images
    IN  cards' = [k \in DOMAIN imgs |-> imgs[k].id]

\* _update_ui, lines 792-804: the generate buttons.
UpdateUi(seqs, cur, proc) ==
    /\ generate_btn' = (Len(GetCurrentSequence(seqs, cur).images) > 0 /\ ~proc)
    /\ generate_all_btn' = (Len(NonEmpty(seqs)) > 0 /\ ~proc)

\* What the sequence handlers leave alone.
SeqFrame ==
    UNCHANGED << vars, histVars, fnVars, drop, is_processing, mpc, workers,
                 pending, all_seqs, all_k, tailVars, worker_job, emitted,
                 all_call, all_outputs >>

\* _add_sequence with the limit test one too late.
AddSequenceOffByOne ==
    /\ UiEvents
    /\ sequence_counter < MaxCounter
    /\ IF Len(sequences) > MAX_SEQUENCES
       THEN UNCHANGED << seqVars, cards, generate_btn, generate_all_btn >>
       ELSE LET n == sequence_counter + 1
                new_seq == [id |-> n, name |-> n, images |-> << >>]
                seqs == Append(sequences, new_seq)
            IN  /\ sequence_counter' = n
                /\ sequences' = seqs
                /\ current_sequence_id' = new_seq.id
                /\ RenderImageGrid(seqs, new_seq.id)
                /\ UpdateUi(seqs, new_seq.id, is_processing)
    /\ UNCHANGED detached
    /\ SeqFrame

\* _add_sequence, lines 652-668.  The uuid4 id is a fresh one: the counter's
\* new value, which no sequence has had.
AddSequence ==
    /\ UiEvents
    /\ sequence_counter < MaxCounter
    /\ IF Len(sequences) >= MAX_SEQUENCES
       THEN UNCHANGED << seqVars, cards, generate_btn, generate_all_btn >>
       ELSE LET n == sequence_counter + 1
                new_seq == [id |-> n, name |-> n, images |-> << >>]
                seqs == Append(sequences, new_seq)
            IN  /\ sequence_counter' = n
                /\ sequences' = seqs
                /\ current_sequence_id' = new_seq.id
                /\ RenderImageGrid(seqs, new_seq.id)
                /\ UpdateUi(seqs, new_seq.id, is_processing)
    /\ UNCHANGED detached
    /\ SeqFrame

\* _switch_sequence, lines 641-650: a click on the tab of sequence sid.
SwitchSequence(sid) ==
    /\ UiEvents
    /\ sid \in SeqIds(sequences)
    /\ IF current_sequence_id = sid
       THEN UNCHANGED << current_sequence_id, cards, generate_btn,
                         generate_all_btn >>
       ELSE /\ current_sequence_id' = sid
            /\ RenderImageGrid(sequences, sid)
            /\ UpdateUi(sequences, sid, is_processing)
    /\ UNCHANGED << sequences, sequence_counter, detached >>
    /\ SeqFrame

\* [s for s in self.sequences if s['id'] != seq_id]
WithoutSeq(seqs, sid) ==
    LET Keep(q) == q.id # sid IN SelectSeq(seqs, Keep)

\* The sequence dicts a running _generate_all_pdfs holds in non_empty stay
\* alive when _delete_sequence takes them out of self.sequences.
Detached(sid) ==
    IF \E k \in DOMAIN all_seqs : all_seqs[k] = sid
    THEN detached \cup {q \in {sequences[k] : k \in DOMAIN sequences} :
                            q.id = sid}
    ELSE detached

\* _delete_sequence that never moves current_sequence_id.
DeleteSequenceKeepsCurrent(sid, reply) ==
    /\ UiEvents
    /\ sid \in SeqIds(sequences)
    /\ IF Len(sequences) <= 1 \/ reply # "Yes"
       THEN UNCHANGED << seqVars, cards, generate_btn, generate_all_btn,
                         detached >>
       ELSE LET seqs == WithoutSeq(sequences, sid)
            IN  /\ sequences' = seqs
                /\ RenderImageGrid(seqs, current_sequence_id)
                /\ UpdateUi(seqs, current_sequence_id, is_processing)
                /\ UNCHANGED << current_sequence_id, sequence_counter >>
                /\ detached' = Detached(sid)
    /\ SeqFrame

\* A right click on the tab of sequence sid: _show_sequence_menu, lines
\* 630-639, its menu's delete action, _delete_sequence, lines 670-691, and
\* the reply to its question ("Yes", "No"; "Dismiss": the menu was closed).
DeleteSequence(sid, reply) ==
    /\ UiEvents
    /\ sid \in SeqIds(sequences)
    /\ IF Len(sequences) <= 1 \/ reply # "Yes"
       THEN UNCHANGED << seqVars, cards, generate_btn, generate_all_btn,
                         detached >>
       ELSE LET seqs == WithoutSeq(sequences, sid)
                cur == IF current_sequence_id = sid
                       THEN seqs[1].id
                       ELSE current_sequence_id
            IN  /\ sequences' = seqs
                /\ current_sequence_id' = cur
                /\ RenderImageGrid(seqs, cur)
                /\ UpdateUi(seqs, cur, is_processing)
                /\ UNCHANGED sequence_counter
                /\ detached' = Detached(sid)
    /\ SeqFrame

Replies == {"Yes", "No", "Dismiss"}

\* The window after construction, the files of Paths all readable.
InitWindow ==
    /\ Init
    /\ fs = [p \in Paths |-> "image"]

NextSeq ==
    \/ AddSequence
    \/ \E sid \in 1..MaxCounter : SwitchSequence(sid)
    \/ \E sid \in 1..MaxCounter, reply \in Replies : DeleteSequence(sid, reply)

SpecSeq == InitWindow /\ [][NextSeq]_allVars

\* C19: the number of sequences stays between 1 and MAX_SEQUENCES = 5,
\* whatever sequences are added, deleted and switched to.
C19_SequenceCountBounded ==
    /\ Len(sequences) >= 1
    /\ Len(sequences) <= 5

\* Five sequences after a deletion: the sixth created one is the fifth held.
C19_Witness ==
    /\ Len(sequences) = 5
    /\ sequence_counter = 6
    /\ sequences[5].id = 6

\* The current sequence is one of the list.
CurrentExists == current_sequence_id \in SeqIds(sequences)

\* A step that removes a sequence: the first remaining one becomes current
\* if the current one went, else the current one stays.
DeleteMovesCurrent ==
    Len(sequences') < Len(sequences) =>
        IF current_sequence_id \in SeqIds(sequences')
        THEN current_sequence_id' = current_sequence_id
        ELSE current_sequence_id' = sequences'[1].id

\* C24: current_sequence_id is always the id of a sequence of the list;
\* deleting the current sequence makes the first remaining one current and
\* deleting another leaves the current one as it is.
C24_CurrentSequenceExists ==
    /\ []CurrentExists
    /\ [][DeleteMovesCurrent]_allVars

\* The first sequence was deleted and the second one is now first and
\* current, with a later one behind it.
C24_Witness ==
    /\ Len(sequences) = 2
    /\ sequences[1].id = 2
    /\ sequences[2].id = 3
    /\ current_sequence_id = 2

\* ---------------------------------------------- MainWindow: the image grid

\* The characters of the file names, in code point order; "(1)" stands for
\* the one character U+2460, CIRCLED DIGIT ONE.
CharTable ==
    << ".", "0", "1", "2", "3", "A", "G", "N", "P", "a", "c", "g", "j", "n",
       "p", "t", "x", "(1)" >>

CodePoint(c) == CHOOSE k \in DOMAIN CharTable : CharTable[k] = c

\* What \d of re.split matches: the decimal digits.
IsDigit(c) == c \in {"0", "1", "2", "3"}

\* str.isdigit() of one character: true of the circled digits as well.
IsDigitStr(c) == IsDigit(c) \/ c = "(1)"

DigitValue(c) == CodePoint(c) - CodePoint("0")

\* str.lower() of one character
Lower(c) ==
    CASE c = "A" -> "a"
      [] c = "G" -> "g"
      [] c = "N" -> "n"
      [] c = "P" -> "p"
      [] OTHER -> c

LowerAll(t) == [k \in DOMAIN t |-> Lower(t[k])]

\* os.path.basename of the files the model adds, as character lists.  The
\* files of Paths are p1.png, p2.png, p3.png; tail is the tail page.
BaseName(f) ==
    CASE f = "p1" -> << "p", "1", ".", "p", "n", "g" >>
      [] f = "p2" -> << "p", "2", ".", "p", "n", "g" >>
      [] f = "p3" -> << "p", "3", ".", "p", "n", "g" >>
      [] f = "tail" -> << "t", "a", "j", ".", "p", "n", "g" >>
      [] f = "a2.png" -> << "a", "2", ".", "p", "n", "g" >>
      [] f = "A10.PNG" -> << "A", "1", "0", ".", "P", "N", "G" >>
      [] f = "c.txt" -> << "c", ".", "t", "x", "t" >>
      [] f = "(1)1.png" -> << "(1)", "1", ".", "p", "n", "g" >>

\* Length of the run of digits (digit = TRUE) or of other characters that
\* t starts with.
RECURSIVE RunLength(_, _)
RunLength(t, digit) ==
    IF t = << >> \/ IsDigit(Head(t)) # digit
    THEN 0
    ELSE 1 + RunLength(Tail(t), digit)

\* int(text) of a run of digits
RECURSIVE IntOf(_)
IntOf(t) ==
    IF t = << >> THEN 0
    ELSE 10 * IntOf(SubSeq(t, 1, Len(t) - 1)) + DigitValue(t[Len(t)])

\* natural_sort_key, lines 10-13: re.split(r'(\d+)', s) gives the runs of
\* other characters and of digits in turn, the first and the last a run of
\* other characters (empty where s starts or ends with a digit); a run of
\* digits becomes its int, any other run its lower().
RECURSIVE natural_sort_key(_)
natural_sort_key(t) ==
    LET n == RunLength(t, FALSE)
        rest == SubSeq(t, n + 1, Len(t))
        m == RunLength(rest, TRUE)
    IN  IF rest = << >>
        THEN << [num |-> FALSE, text |-> LowerAll(SubSeq(t, 1, n)), int |-> 0] >>
        ELSE << [num |-> FALSE, text |-> LowerAll(SubSeq(t, 1, n)), int |-> 0],
                [num |-> TRUE, text |-> << >>, int |-> IntOf(SubSeq(rest, 1, m))] >>
             \o natural_sort_key(SubSeq(rest, m + 1, Len(rest)))

\* natural_sort_key raises ValueError: a run re.split took for text is made
\* of characters isdigit() accepts, and int() rejects it.
KeyRaises(t) ==
    LET key == natural_sort_key(t)
    IN  \E k \in DOMAIN key :
            /\ ~key[k].num
            /\ key[k].text # << >>
            /\ \A n \in DOMAIN key[k].text : IsDigitStr(key[k].text[n])

\* str < str: by code points, a proper prefix first
RECURSIVE TextLess(_, _)
TextLess(a, b) ==
    IF b = << >> THEN FALSE
    ELSE IF a = << >> THEN TRUE
    ELSE IF Head(a) # Head(b) THEN CodePoint(Head(a)) < CodePoint(Head(b))
    ELSE TextLess(Tail(a), Tail(b))

\* Comparison of two elements of a key (both int or both str)
PartLess(x, y) ==
    IF x.num /\ y.num THEN x.int < y.int ELSE TextLess(x.text, y.text)

\* list < list of two keys
RECURSIVE KeyLess(_, _)
KeyLess(k1, k2) ==
    IF k2 = << >> THEN FALSE
    ELSE IF k1 = << >> THEN TRUE
    ELSE IF Head(k1) # Head(k2) THEN PartLess(Head(k1), Head(k2))
    ELSE KeyLess(Tail(k1), Tail(k2))

\* The files the model names.
FileNames ==
    {"p1", "p2", "p3", "tail", "a2.png", "A10.PNG", "c.txt", "(1)1.png"}

\* The files whose key cannot be computed.
KeyRaisers == {f \in FileNames : KeyRaises(BaseName(f))}

\* sorted(...) raises: the key of one of the files does.
SortRaises(filepaths) ==
    \E k \in DOMAIN filepaths : filepaths[k] \in KeyRaisers

\* The sort key of every file, by its base name.
SortKeys == [f \in FileNames |-> natural_sort_key(BaseName(f))]

SortKey(f) == SortKeys[f]

\* One step of a stable sort: f goes behind every file not after it.
InsertSorted(sorted, f) ==
    LET NotAfter(g) == ~KeyLess(SortKey(f), SortKey(g))
        n == Len(SelectSeq(sorted, NotAfter))
    IN  SubSeq(sorted, 1, n) \o << f >> \o SubSeq(sorted, n + 1, Len(sorted))

\* sorted(filepaths, key=lambda x: natural_sort_key(os.path.basename(x)))
RECURSIVE SortedPaths(_)
SortedPaths(filepaths) ==
    IF filepaths = << >> THEN << >>
    ELSE InsertSorted(SortedPaths(SubSeq(filepaths, 1, Len(filepaths) - 1)),
                      filepaths[Len(filepaths)])

\* get_supported_extensions, lines 16-18
SupportedExtensions ==
    { << ".", "j", "p", "g" >>, << ".", "j", "p", "e", "g" >>,
      << ".", "p", "n", "g" >>, << ".", "w", "e", "b", "p" >>,
      << ".", "b", "m", "p" >>, << ".", "g", "i", "f" >> }

\* os.path.splitext(name)[1]: from the last dot on, unless the name has no
\* dot behind its first character.
SplitExt(t) ==
    LET dots == {k \in 2..Len(t) : t[k] = "."}
    IN  IF dots = {} THEN << >>
        ELSE SubSeq(t, CHOOSE k \in dots : \A j \in dots : j <= k, Len(t))

\* The files is_image_file accepts: ext.lower() is a supported extension.
ImageFileNames ==
    {f \in FileNames : LowerAll(SplitExt(BaseName(f))) \in SupportedExtensions}

\* is_image_file, lines 21-24
is_image_file(f) == f \in ImageFileNames

\* The files _add_images appends: the batch sorted, the unsupported skipped.
ImageFiles(filepaths) == SelectSeq(SortedPaths(filepaths), is_image_file)

\* The img_data records _add_images appends, the k-th with the k-th fresh
\* uuid4 value.
NewImages(filepaths) ==
    LET files == ImageFiles(filepaths)
    IN  [k \in DOMAIN files |-> [id |-> uuids + k, filepath |-> files[k]]]

\* _open_file_dialog / _on_files_dropped and _add_images, lines 698-737,
\* for a batch of files.  Where sorted() raises (line 714) the handler ends
\* there, with nothing added.
AddImagesCore(filepaths) ==
    /\ UiEvents
    /\ filepaths # << >>
    /\ IF SortRaises(filepaths)
       THEN UNCHANGED << sequences, cards, generate_btn, generate_all_btn,
                         uuids >>
       ELSE /\ uuids + Len(ImageFiles(filepaths)) <= MaxImages
            /\ LET seq == GetCurrentSequence(sequences, current_sequence_id)
                   seqs == SetImages(sequences, current_sequence_id,
                                     seq.images \o NewImages(filepaths))
               IN  /\ sequences' = seqs
                   /\ RenderImageGrid(seqs, current_sequence_id)
                   /\ UpdateUi(seqs, current_sequence_id, is_processing)
            /\ uuids' = uuids + Len(ImageFiles(filepaths))
    /\ UNCHANGED << vars, prev, fnVars, current_sequence_id, sequence_counter,
                    drop, is_processing, mpc, workers, pending,
                    all_seqs, all_k, tailVars, runVars >>

AddImages(filepaths) ==
    /\ AddImagesCore(filepaths)
    /\ UNCHANGED added

\* list.pop(i), i a 0-based index of s: the list left
Pop(s, i0) == [k \in 1..(Len(s) - 1) |-> IF k <= i0 THEN s[k] ELSE s[k + 1]]

\* list.insert that overwrites the element at the index.
InsertOverwriting(s, i0, x) ==
    [k \in 1..Len(s) |-> IF k = i0 + 1 \/ (i0 >= Len(s) /\ k = Len(s))
                         THEN x ELSE s[k]]

\* list.insert(i, x), i >= 0 a 0-based index: past the end appends
Insert(s, i0, x) ==
    LET at == IF i0 > Len(s) THEN Len(s) ELSE i0
    IN  [k \in 1..(Len(s) + 1) |->
            IF k <= at THEN s[k] ELSE IF k = at + 1 THEN x ELSE s[k - 1]]

\* get_card_index, lines 84-88 (0-based, -1 when absent)
GetCardIndex(cs, image_id) ==
    IF \E k \in DOMAIN cs : cs[k] = image_id
    THEN (CHOOSE k \in DOMAIN cs :
              /\ cs[k] = image_id
              /\ \A j \in 1..(k - 1) : cs[j] # image_id) - 1
    ELSE -1

\* A drop point: on the card at 0-based position pos.on, in its left half
\* (pos.x() < center_x) or not; pos.on = -1 is a point outside every card.
DropPoints(cs) ==
    [on : 0..(Len(cs) - 1), half : {"left", "right"}]
        \cup {[on |-> -1, half |-> "none"]}

\* _get_drop_index, lines 122-135
GetDropIndex(cs, pos) ==
    IF pos.on >= 0
    THEN IF pos.half = "left" THEN pos.on ELSE pos.on + 1
    ELSE Len(cs)

\* _on_order_changed, lines 592-602: the current sequence's images in the
\* grid's new order.
Reordered(images, new_order) ==
    LET Known(id) == \E k \in DOMAIN images : images[k].id = id
        kept == SelectSeq(new_order, Known)
    IN  [k \in DOMAIN kept |->
            images[CHOOSE j \in DOMAIN images :
                       /\ images[j].id = kept[k]
                       /\ \A l \in (j + 1)..Len(images) : images[l].id # kept[k]]]

\* dropEvent, lines 98-120, of a drag carrying the text source_id, with the
\* slot of order_changed, _on_order_changed.
DropEvent(source_id, pos) ==
    /\ UiEvents
    /\ pos \in DropPoints(cards)
    /\ drop' = [source |-> source_id,
                on |-> IF pos.on >= 0 THEN cards[pos.on + 1] ELSE 0,
                half |-> pos.half,
                before |-> cards]
    /\ LET source_idx == GetCardIndex(cards, source_id)
           target_idx == GetDropIndex(cards, pos)
       IN  IF source_idx < 0 \/ target_idx < 0 \/ target_idx = source_idx
           THEN UNCHANGED << sequences, cards >>
           ELSE LET moved == Insert(Pop(cards, source_idx),
                                    IF target_idx < source_idx
                                    THEN target_idx ELSE target_idx,
                                    cards[source_idx + 1])
                    seq == GetCurrentSequence(sequences, current_sequence_id)
                    seqs == SetImages(sequences, current_sequence_id,
                                      Reordered(seq.images, moved))
                IN  /\ sequences' = seqs
                    /\ RenderImageGrid(seqs, current_sequence_id)
    /\ UNCHANGED << vars, histVars, fnVars, current_sequence_id,
                    sequence_counter, jobVars, tailVars, runVars >>

NextGrid ==
    \/ \E p \in Paths : AddImages(<< p >>)
    \/ \E source_id \in 0..MaxImages, on \in -1..(MaxImages - 1),
             half \in {"left", "right", "none"} :
           DropEvent(source_id, [on |-> on, half |-> half])

SpecGrid == InitWindow /\ [][NextGrid]_allVars

\* 1-based position of card id in the grid order cs (0 when absent)
PosIn(cs, id) == GetCardIndex(cs, id) + 1

\* C20: a card dropped on another card X ends up immediately before X after
\* a drop in X's left half and immediately after X after a drop in its right
\* half, wherever it came from; dropped outside every card it ends up last.
C20_DropLandsNextToTarget ==
    PosIn(drop.before, drop.source) > 0 =>
        /\ (drop.on # 0 /\ drop.on # drop.source /\ drop.half = "left")
              => PosIn(cards, drop.source) + 1 = PosIn(cards, drop.on)
        /\ (drop.on # 0 /\ drop.on # drop.source /\ drop.half = "right")
              => PosIn(cards, drop.source) = PosIn(cards, drop.on) + 1
        /\ drop.half = "none"
              => PosIn(cards, drop.source) = Len(cards)

\* The ids of a list of images, in order.
IdsOf(images) == [k \in DOMAIN images |-> images[k].id]

\* C23: drops only permute the current sequence: it holds every image id
\* ever added exactly once, and in the order of the grid's cards.
C23_DropsOnlyPermute ==
    LET ids == IdsOf(GetCurrentSequence(sequences, current_sequence_id).images)
    IN  /\ ids = cards
        /\ Len(ids) = uuids
        /\ {ids[k] : k \in DOMAIN ids} = 1..uuids

\* A drop moved a card of a grid of three.
C23_Witness ==
    /\ Len(cards) = 3
    /\ Len(drop.before) = 3
    /\ drop.source \in 1..3
    /\ cards # drop.before

\* -------------------------------------------- MainWindow: adding a batch

\* The files a batch is chosen from.
BatchFiles == {"A10.PNG", "a2.png", "c.txt", "(1)1.png"}

\* _add_images, with the batch kept.
AddImagesRecorded(filepaths) ==
    /\ AddImagesCore(filepaths)
    /\ added' = filepaths

\* _add_sequence while there are few sequences.
AddBatchSequence ==
    /\ Len(sequences) < MaxBatchSeqs
    /\ AddSequence

NextAdd ==
    \/ \E filepaths \in SeqsUpTo(BatchFiles, MaxBatch) :
           AddImagesRecorded(filepaths)
    \/ AddBatchSequence
    \/ \E sid \in 1..MaxBatchSeqs : SwitchSequence(sid)

SpecAdd == InitWindow /\ [][NextAdd]_allVars

\* Place of a file of BatchFiles in the natural order of the base names:
\* a2 before A10, the letters before the circled digit; 0 for a file with
\* no supported extension.
NaturalRank(f) ==
    CASE f = "a2.png" -> 1
      [] f = "A10.PNG" -> 2
      [] f = "(1)1.png" -> 3
      [] OTHER -> 0

\* How often f occurs in the list t
Count(t, f) == Cardinality({k \in DOMAIN t : t[k] = f})

PathsOf(images) == [k \in DOMAIN images |-> images[k].filepath]

\* A step that takes a batch appends to the current sequence the supported
\* files of the batch, in natural order, and changes nothing else of the
\* sequences.
BatchAppended ==
    (added' # added \/ uuids' # uuids) =>
        LET k == CurrentIndex(sequences, current_sequence_id)
            old == sequences[k].images
            now == sequences'[k].images
            new == PathsOf(SubSeq(now, Len(old) + 1, Len(now)))
        IN  /\ Len(sequences') = Len(sequences)
            /\ \A j \in DOMAIN sequences :
                   j # k => sequences'[j] = sequences[j]
            /\ sequences'[k].id = sequences[k].id
            /\ sequences'[k].name = sequences[k].name
            /\ Len(now) >= Len(old)
            /\ SubSeq(now, 1, Len(old)) = old
            /\ \A f \in BatchFiles :
                   Count(new, f) = IF NaturalRank(f) > 0
                                   THEN Count(added', f) ELSE 0
            /\ \A a \in DOMAIN new : \A b \in DOMAIN new :
                   a < b => NaturalRank(new[a]) <= NaturalRank(new[b])

\* C21: a batch appends to the current sequence exactly its files with a
\* supported extension, in natural order of their base names; the images
\* the sequence had keep their places and the other sequences are unchanged.
C21_BatchAppendedInNaturalOrder == [][BatchAppended]_allVars

\* ------------------------------------- MainWindow: edits and settings

\* What the handlers that edit the current sequence leave alone.
EditFrame ==
    UNCHANGED << vars, histVars, fnVars, current_sequence_id,
                 sequence_counter, drop, is_processing, mpc, workers,
                 pending, all_seqs, all_k, tailVars, runVars >>

\* _remove_image that takes the image out of the running job's list too, as
\* if the job shared the sequence's list.
RemoveImageShared(image_id) ==
    /\ UiEvents
    /\ \E k \in DOMAIN cards : cards[k] = image_id
    /\ LET seq == GetCurrentSequence(sequences, current_sequence_id)
           Keep(img) == img.id # image_id
           Other(f) == \A k \in DOMAIN seq.images :
                          seq.images[k].id = image_id
                              => seq.images[k].filepath # f
           seqs == SetImages(sequences, current_sequence_id,
                             SelectSeq(seq.images, Keep))
       IN  /\ sequences' = seqs
           /\ RenderImageGrid(seqs, current_sequence_id)
           /\ UpdateUi(seqs, current_sequence_id, is_processing)
           /\ worker_job' =
                  [worker_job EXCEPT
                       !.images = SelectSeq(worker_job.images, Other)]
    /\ UNCHANGED << vars, histVars, fnVars, current_sequence_id,
                    sequence_counter, drop, is_processing, mpc, workers,
                    pending, all_seqs, all_k, tailVars, emitted, all_call,
                    all_outputs, detached >>

\* The remove button of the card of image_id: _remove_image, lines 768-773.
RemoveImage(image_id) ==
    /\ UiEvents
    /\ \E k \in DOMAIN cards : cards[k] = image_id
    /\ LET seq == GetCurrentSequence(sequences, current_sequence_id)
           Keep(img) == img.id # image_id
           seqs == SetImages(sequences, current_sequence_id,
                             SelectSeq(seq.images, Keep))
       IN  /\ sequences' = seqs
           /\ RenderImageGrid(seqs, current_sequence_id)
           /\ UpdateUi(seqs, current_sequence_id, is_processing)
    /\ EditFrame

\* _on_order_changed, lines 592-602, after a drop that made the grid's
\* order new_order, a rearrangement of its cards.
OnOrderChanged(new_order) ==
    /\ UiEvents
    /\ new_order # cards
    /\ Len(new_order) = Len(cards)
    /\ \A k \in DOMAIN cards : \E j \in DOMAIN new_order :
           new_order[j] = cards[k]
    /\ LET seq == GetCurrentSequence(sequences, current_sequence_id)
           seqs == SetImages(sequences, current_sequence_id,
                             Reordered(seq.images, new_order))
       IN  /\ sequences' = seqs
           /\ RenderImageGrid(seqs, current_sequence_id)
    /\ UNCHANGED << generate_btn, generate_all_btn >>
    /\ EditFrame

\* _clear_all, lines 775-790, with the reply to its question.
ClearAll(reply) ==
    /\ UiEvents
    /\ LET seq == GetCurrentSequence(sequences, current_sequence_id)
       IN  IF seq.images = << >> \/ reply # "Yes"
           THEN UNCHANGED << sequences, cards, generate_btn,
                             generate_all_btn >>
           ELSE LET seqs == SetImages(sequences, current_sequence_id, << >>)
                IN  /\ sequences' = seqs
                    /\ RenderImageGrid(seqs, current_sequence_id)
                    /\ UpdateUi(seqs, current_sequence_id, is_processing)
    /\ EditFrame

\* Sequence names are numbers here: n >= 1 is the default name of the n-th
\* sequence created; the texts typed into the name field are 0, the empty
\* text, -1, 'a/b', and -2, 'a_b'.
Texts == {0, -1, -2}

\* sanitize_filename, lines 37-40: the characters a file name cannot have
\* become underscores.
sanitize_filename(filename) == IF filename = -1 THEN -2 ELSE filename

\* The directory the directory dialog of _generate_all_pdfs answers with.
OutputDir == "dir"

\* _on_filename_changed, lines 693-696: the name field's text has changed
\* to text.  (The setText calls of the sequence handlers give it the
\* current sequence's own name.)
OnFilenameChanged(text) ==
    /\ UiEvents
    /\ LET k == CurrentIndex(sequences, current_sequence_id)
       IN  sequences' =
               [sequences EXCEPT
                    ![k].name = IF text # 0 THEN text ELSE sequence_counter]
    /\ UNCHANGED << cards, generate_btn, generate_all_btn >>
    /\ EditFrame

\* What the tail page handlers leave alone.
TailFrame ==
    UNCHANGED << vars, histVars, fnVars, seqVars, gridVars, jobVars,
                 runVars >>

\* _on_tail_enabled_changed, lines 380-384: the tail checkbox is toggled.
OnTailEnabledChanged(enabled) ==
    /\ UiEvents
    /\ enabled # tail_page_enabled
    /\ tail_page_enabled' = enabled
    /\ UNCHANGED << tail_page_path, tail_exists >>
    /\ TailFrame

\* _select_tail_page, lines 386-398, with the file dialog's answer ("":
\* cancelled).
SelectTailPage(filepath) ==
    /\ UiEvents
    /\ IF filepath # ""
       THEN tail_page_path' = filepath
       ELSE UNCHANGED tail_page_path
    /\ UNCHANGED << tail_page_enabled, tail_exists >>
    /\ TailFrame

\* The tail page's file is deleted, or put back, outside the program.
TailFileChanges ==
    /\ tail_exists' = ~tail_exists
    /\ UNCHANGED << tail_page_enabled, tail_page_path >>
    /\ TailFrame

\* ------------------------------------------- MainWindow: generation jobs

\* The tail page's file: the one path _select_tail_page is given here.
TailFile == "tail"

\* _get_images_with_tail that appends the tail page whether enabled or not.
GetImagesWithTailAlways(images) ==
    IF tail_page_path # "" /\ tail_exists
    THEN images \o << tail_page_path >>
    ELSE images

\* _get_images_with_tail, lines 410-414.
GetImagesWithTail(images) ==
    IF tail_page_enabled /\ tail_page_path # "" /\ tail_exists
    THEN images \o << tail_page_path >>
    ELSE images

\* _start_generation that leaves is_processing alone.
StartGenerationNoFlag(images, output_path) ==
    /\ UpdateUi(sequences, current_sequence_id, is_processing)
    /\ workers' = workers + 1
    /\ worker_job' = [images |-> images, output_path |-> output_path]
    /\ UNCHANGED is_processing

\* _start_generation, lines 870-886: the flag, the buttons, and a new
\* PDFWorker thread, whose run() calls generate_pdf.
StartGeneration(images, output_path) ==
    /\ is_processing' = TRUE
    /\ UpdateUi(sequences, current_sequence_id, TRUE)
    /\ workers' = workers + 1
    /\ worker_job' = [images |-> images, output_path |-> output_path]

\* What the job handlers leave alone.
JobFrame ==
    UNCHANGED << vars, histVars, fnVars, seqVars, gridVars, tailVars >>

\* _generate_current_pdf, lines 810-828, with the modal save dialog's
\* answer ("": cancelled).
GenerateCurrentPdf(output_path) ==
    /\ UiEvents
    /\ workers + pending < MaxWorkers
    /\ LET seq == GetCurrentSequence(sequences, current_sequence_id)
       IN  IF seq.images = << >> \/ is_processing \/ output_path = ""
           THEN UNCHANGED << is_processing, generate_btn, generate_all_btn,
                             workers, worker_job >>
           ELSE StartGeneration(GetImagesWithTail(PathsOf(seq.images)),
                                output_path)
    /\ UNCHANGED << mpc, pending, all_seqs, all_k, emitted, all_call,
                    all_outputs, detached >>
    /\ JobFrame

\* PDFWorker.run that reports success whatever generate_pdf returned.
EmitFinishedAlwaysTrue(success) ==
    /\ workers > 0
    /\ workers' = workers - 1
    /\ pending' = pending + 1
    /\ emitted' = Append(emitted, TRUE)
    /\ worker_job' = NoJob
    /\ UNCHANGED << is_processing, generate_btn, generate_all_btn, mpc,
                    all_seqs, all_k, all_call, all_outputs, detached >>

\* PDFWorker.run, lines 52-56: generate_pdf has returned success on the
\* worker thread; finished is emitted, queued to the main thread, and the
\* thread ends.
EmitFinished(success) ==
    /\ workers > 0
    /\ workers' = workers - 1
    /\ pending' = pending + 1
    /\ emitted' = Append(emitted, success)
    /\ worker_job' = NoJob
    /\ UNCHANGED << is_processing, generate_btn, generate_all_btn, mpc,
                    all_seqs, all_k, all_call, all_outputs, detached >>

\* PDFWorker.run, lines 45-56, its generate_pdf call returning either way.
WorkerRunEnds ==
    /\ \E success \in BOOLEAN : EmitFinished(success)
    /\ JobFrame

\* _on_finished, lines 893-904, run by whichever event loop the main thread
\* is in (a modal dialog's included), with its own modal question.
OnFinished ==
    /\ mpc \in {"idle", "all_events", "all_warning"}
    /\ pending > 0
    /\ pending' = pending - 1
    /\ emitted' = Tail(emitted)
    /\ is_processing' = FALSE
    /\ UpdateUi(sequences, current_sequence_id, FALSE)
    /\ UNCHANGED << mpc, workers, all_seqs, all_k, worker_job, all_call,
                    all_outputs, detached >>
    /\ JobFrame

SeqIdList(seqs) == [k \in DOMAIN seqs |-> seqs[k].id]

\* _generate_all_pdfs, lines 830-847, with the modal directory dialog's
\* answer, up to the first processEvents().  Started from the processEvents()
\* of a running loop it would be a second loop inside the first.
GenerateAllPdfs(output_dir) ==
    /\ UiEvents
    /\ output_dir \in {"", OutputDir}
    /\ LET non_empty == NonEmpty(sequences)
       IN  IF non_empty = << >> \/ is_processing \/ output_dir = ""
           THEN UNCHANGED << is_processing, generate_btn, generate_all_btn,
                             mpc, all_seqs, all_k >>
           ELSE /\ is_processing' = TRUE
                /\ UpdateUi(sequences, current_sequence_id, TRUE)
                /\ IF mpc = "idle"
                   THEN /\ mpc' = "all_events"
                        /\ all_seqs' = SeqIdList(non_empty)
                        /\ all_k' = 0
                   ELSE /\ mpc' = "all_nested"
                        /\ UNCHANGED << all_seqs, all_k >>
    /\ UNCHANGED << workers, pending, runVars >>
    /\ JobFrame

\* The dict non_empty holds for the sequence with this id.
SeqOfRun(sid) ==
    IF sid \in SeqIds(sequences)
    THEN GetCurrentSequence(sequences, sid)
    ELSE CHOOSE q \in detached : q.id = sid

\* Lines 849-857: processEvents() has returned and the loop calls
\* generate_pdf on the main thread for non_empty[all_k].
AllGenerateBegins ==
    /\ mpc = "all_events"
    /\ mpc' = "all_generating"
    /\ LET seq == SeqOfRun(all_seqs[all_k + 1])
           output_path == << OutputDir, sanitize_filename(seq.name) >>
       IN  /\ all_call' =
                  [images |-> GetImagesWithTail(PathsOf(seq.images)),
                   output_path |-> output_path]
           /\ all_outputs' = Append(all_outputs, output_path)
    /\ UNCHANGED << is_processing, generate_btn, generate_all_btn, workers,
                    pending, all_seqs, all_k, worker_job, emitted, detached >>
    /\ JobFrame

\* The loop goes on to its next sequence, or ends (lines 862-868).
AllAdvance ==
    IF all_k + 1 < Len(all_seqs)
    THEN /\ mpc' = "all_events"
         /\ all_k' = all_k + 1
         /\ UNCHANGED << is_processing, generate_btn, generate_all_btn,
                         all_seqs >>
         /\ UNCHANGED << all_outputs, detached >>
    ELSE /\ mpc' = "idle"
         /\ all_k' = 0
         /\ all_seqs' = << >>
         /\ all_outputs' = << >>
         /\ detached' = {}
         /\ is_processing' = FALSE
         /\ UpdateUi(sequences, current_sequence_id, FALSE)

\* Lines 851-860: generate_pdf returns; a failure opens the modal warning.
AllGenerateEnds(success) ==
    /\ mpc = "all_generating"
    /\ IF success
       THEN AllAdvance
       ELSE /\ mpc' = "all_warning"
            /\ UNCHANGED << is_processing, generate_btn, generate_all_btn,
                            all_seqs, all_k, all_outputs, detached >>
    /\ all_call' = NoAllCall
    /\ UNCHANGED << workers, pending, worker_job, emitted >>
    /\ JobFrame

\* The warning of line 860 is closed.
AllWarningClosed ==
    /\ mpc = "all_warning"
    /\ AllAdvance
    /\ UNCHANGED << workers, pending, worker_job, emitted, all_call >>
    /\ JobFrame

NextJobs ==
    \/ AddImages(<< "p1" >>)
    \/ AddSequence
    \/ \E sid \in 1..MaxCounter : SwitchSequence(sid)
    \/ \E output_path \in {"", "out"} : GenerateCurrentPdf(output_path)
    \/ WorkerRunEnds
    \/ OnFinished
    \/ \E output_dir \in {"", "dir"} : GenerateAllPdfs(output_dir)
    \/ AllGenerateBegins
    \/ \E success \in BOOLEAN : AllGenerateEnds(success)
    \/ AllWarningClosed

SpecJobs == InitWindow /\ [][NextJobs]_allVars

\* generate_pdf calls in progress, on the worker threads and the main one.
JobsActive == workers + (IF mpc = "all_generating" THEN 1 ELSE 0)

\* C12: at most one generate_pdf call is in progress at any time: no worker
\* runs or is awaited while a generate-all loop is running, no generate-all
\* loop starts inside another, and the loop is at one sequence at a time.
C12_OneJobAtATime ==
    /\ JobsActive <= 1
    /\ workers + pending <= 1
    /\ mpc # "all_nested"
    /\ mpc # "idle" => /\ workers + pending = 0
                       /\ is_processing
                       /\ all_k < Len(all_seqs)
    /\ workers + pending > 0 => is_processing

\* The loop is generating its second sequence, the current sequence has
\* images and both generate buttons are disabled.
C12_Witness ==
    /\ mpc = "all_generating"
    /\ all_k = 1
    /\ GetCurrentSequence(sequences, current_sequence_id).images # << >>
    /\ ~generate_btn
    /\ ~generate_all_btn

\* ------------------------------------------------ the tail page of a job

NextTail ==
    \/ \E p \in {"p1", "p2"} : AddImages(<< p >>)
    \/ AddBatchSequence
    \/ \E enabled \in BOOLEAN : OnTailEnabledChanged(enabled)
    \/ \E filepath \in {"", TailFile} : SelectTailPage(filepath)
    \/ TailFileChanges
    \/ \E output_path \in {"", "out"} : GenerateCurrentPdf(output_path)
    \/ WorkerRunEnds
    \/ OnFinished
    \/ \E output_dir \in {"", OutputDir} : GenerateAllPdfs(output_dir)
    \/ AllGenerateBegins
    \/ \E success \in BOOLEAN : AllGenerateEnds(success)
    \/ AllWarningClosed

SpecTail == InitWindow /\ [][NextTail]_allVars

\* The list a job is to get for a sequence showing these images: their
\* paths, and the tail page after them where it is enabled and its file
\* exists.
ExpectedJobList(images) ==
    LET paths == [k \in DOMAIN images |-> images[k].filepath]
    IN  IF tail_page_enabled /\ tail_page_path # "" /\ tail_exists
        THEN Append(paths, tail_page_path)
        ELSE paths

\* A step that starts a worker, or a generate_pdf call of the generate-all
\* loop, hands over the expected list and leaves the sequences as they are.
JobListBuilt ==
    /\ workers' > workers =>
           /\ worker_job'.images =
                  ExpectedJobList(
                      GetCurrentSequence(sequences,
                                         current_sequence_id).images)
           /\ sequences' = sequences
    /\ (mpc = "all_events" /\ mpc' = "all_generating") =>
           /\ all_call'.images =
                  ExpectedJobList(SeqOfRun(all_seqs[all_k + 1]).images)
           /\ sequences' = sequences
           /\ detached' = detached

\* C22: every job started from the UI (generate current, and each sequence
\* of generate all) gets the sequence's image paths in display order,
\* followed by the tail page as the single last path when the tail page is
\* enabled and its file exists, and exactly the sequence's paths otherwise;
\* building the list leaves the sequence's own image list unchanged.
C22_JobGetsPathsThenTail == [][JobListBuilt]_allVars

\* A worker runs on a sequence's two paths followed by the tail page, and
\* the sequence still has its two images.
C22_Witness ==
    /\ workers = 1
    /\ worker_job.images = << "p2", "p1", TailFile >>
    /\ Len(GetCurrentSequence(sequences, current_sequence_id).images) = 2

\* --------------------------------------- the output files of generate all

\* Sequences created in a session that renames them.
MaxCreated == 3

\* _add_sequence, while few sequences have been created.
AddNamedSequence ==
    /\ sequence_counter < MaxCreated
    /\ AddSequence

NextNames ==
    \/ AddImages(<< "p1" >>)
    \/ AddNamedSequence
    \/ \E sid \in 1..MaxCounter : SwitchSequence(sid)
    \/ \E sid \in 1..MaxCounter : DeleteSequence(sid, "Yes")
    \/ \E text \in Texts : OnFilenameChanged(text)
    \/ \E output_dir \in {"", OutputDir} : GenerateAllPdfs(output_dir)
    \/ AllGenerateBegins
    \/ \E success \in BOOLEAN : AllGenerateEnds(success)
    \/ AllWarningClosed

SpecNames == InitWindow /\ [][NextNames]_allVars

\* C27: in one generate-all run no two sequences are written to the same
\* output path, whatever names new-sequence, delete-sequence and rename
\* actions (clearing the name field included) have produced, so the run
\* produces as many files as it reports.
C27_DistinctOutputPaths ==
    \A a \in DOMAIN all_outputs : \A b \in DOMAIN all_outputs :
        a # b => all_outputs[a] # all_outputs[b]

\* ------------------------------------------------ ImageProcessor (pixels)

\* Pixel sizes of the source files: wide and tall strips, squares, the
\* boundary ratio 1.6 and its neighbours, and sides at JPEG's limit.
DimValues == {1, 2, 3, 5, 77, 100, 154, 160, 1000, 1601}

SourceSizes ==
    (DimValues \X DimValues)
        \cup {<< 1000, 65500 >>, << 1000, 65501 >>, << 65501, 1000 >>}

Modes == {"RGB", "RGBA", "P", "LA", "L", "CMYK", "PA"}

\* Modes whose pixels can be transparent (P through its transparency entry).
AlphaModes == {"RGBA", "P", "LA", "PA"}

\* A decoded image: its size, its mode, and one sample pixel, either "ink"
\* (an opaque dark pixel) or "clear" (a fully transparent pixel whose stored
\* colour is dark).
ImagesOf(sizes) ==
    {[w |-> sz[1], h |-> sz[2], mode |-> m, px |-> x] :
        sz \in sizes, m \in Modes, x \in {"ink"}}
    \cup
    {[w |-> sz[1], h |-> sz[2], mode |-> m, px |-> x] :
        sz \in sizes, m \in AlphaModes, x \in {"clear"}}

SourceImages == ImagesOf(SourceSizes) \cup {NoImage}

\* The sources thumbnails are made of.
ThumbSources == ImagesOf(DimValues \X DimValues) \cup {NoImage}

\* create_thumbnail's max_width: 160 in _add_images, 300 by default.
ThumbWidths == {160, 300}

CompressQualities == {10, 90, 100}

\* The normalisation block with LA left out of the composited modes.
NormalizeWithoutLA(img) ==
    IF img.mode \in {"RGBA", "P"}
    THEN [img EXCEPT !.mode = "RGB",
                     !.px = IF img.px = "clear" THEN "white" ELSE img.px]
    ELSE IF img.mode # "RGB"
         THEN [img EXCEPT !.mode = "RGB",
                          !.px = IF img.px = "clear" THEN "ink" ELSE img.px]
         ELSE img

\* The normalisation block of load_image (lines 18-25), create_thumbnail
\* (73-80) and compress_image (95-102): RGBA, P (converted to RGBA) and LA
\* are pasted through their alpha onto a white RGB image of img.size, so a
\* transparent pixel becomes white; any other mode but RGB goes through
\* convert('RGB'), which drops alpha and leaves the stored colour.
Normalize(img) ==
    IF img.mode \in {"RGBA", "P", "LA"}
    THEN [img EXCEPT !.mode = "RGB",
                     !.px = IF img.px = "clear" THEN "white" ELSE img.px]
    ELSE IF img.mode # "RGB"
         THEN [img EXCEPT !.mode = "RGB",
                          !.px = IF img.px = "clear" THEN "ink" ELSE img.px]
         ELSE img

\* (max_width, orig_w, orig_h) of the model's sources for which the double
\* product orig_h * (max_width / orig_w) falls just below the integer
\* orig_h * max_width / orig_w, so that int() gives one less.
FloatShortfall ==
    {<< 160, 77, 77 >>, << 160, 77, 154 >>, << 160, 154, 77 >>,
     << 160, 154, 154 >>}

\* lines 55-56: scale = target_w / orig_w; target_h = int(orig_h * scale)
TargetH(target_w, orig_w, orig_h) ==
    ((orig_h * target_w) \div orig_w)
        - (IF << target_w, orig_w, orig_h >> \in FloatShortfall THEN 1 ELSE 0)

\* line 60: max_h = int(target_w * 1.6)
MaxH(target_w) == (8 * target_w) \div 5

\* Image.resize((w, h), LANCZOS): raises ValueError unless both are > 0.
ResizeRaises(w, h) == w < 1 \/ h < 1

\* A crop box keeping the bottom rows of the scaled image.
CropBoxBottom(target_w, max_h, target_h) ==
    [left |-> 0, top |-> target_h - max_h, w |-> target_w, h |-> max_h]

\* line 67: img.crop((0, 0, target_w, max_h)), as left, top, width, height
CropBox(target_w, max_h, target_h) ==
    [left |-> 0, top |-> 0, w |-> target_w, h |-> max_h]

\* Longest side libjpeg encodes.
JPEG_MAX_DIMENSION == 65500

\* img.save(buffer, format='JPEG', ...) raises for a side beyond the limit.
SaveRaises(img) == img.w > JPEG_MAX_DIMENSION \/ img.h > JPEG_MAX_DIMENSION

\* A JPEG encoder that halves the picture.
EncodeJpegHalved(img, q) ==
    [ok |-> TRUE, enc |-> "jpeg", quality |-> q,
     w |-> (img.w + 1) \div 2, h |-> (img.h + 1) \div 2, px |-> img.px]

\* The buffer img.save(buffer, format='JPEG', quality=q, optimize=True)
\* fills: a JPEG stream whose frame header carries the RGB image's size.
EncodeJpeg(img, q) ==
    [ok |-> TRUE, enc |-> "jpeg", quality |-> q, w |-> img.w, h |-> img.h,
     px |-> img.px]

\* Image.open of such a buffer.
DecodeJpeg(buf) == [w |-> buf.w, h |-> buf.h, mode |-> "RGB", px |-> buf.px]

\* None (load_image, create_thumbnail), b'' (compress_image)
Failed == [ok |-> FALSE]

\* load_image, lines 14-29
load_image(src) ==
    IF src = NoImage
    THEN Failed
    ELSE [ok |-> TRUE, img |-> Normalize(src)]

\* create_thumbnail, lines 41-88.  The result records, beside the buffer,
\* which part of the scaled image it shows.
create_thumbnail(src, max_width) ==
    IF src = NoImage
    THEN Failed
    ELSE LET target_w == max_width
             target_h == TargetH(target_w, src.w, src.h)
             max_h == MaxH(target_w)
             box == IF target_h > max_h
                    THEN CropBox(target_w, max_h, target_h)
                    ELSE [left |-> 0, top |-> 0, w |-> target_w,
                          h |-> target_h]
             img == Normalize([src EXCEPT !.w = box.w, !.h = box.h])
         IN  IF ResizeRaises(target_w, target_h) \/ SaveRaises(img)
             THEN Failed
             ELSE [ok |-> TRUE, buf |-> EncodeJpeg(img, 90),
                   scaled |-> << target_w, target_h >>, box |-> box,
                   cropped |-> target_h > max_h]

\* compress_image, lines 90-109, on the decoded pixels
CompressPixels(src, q) ==
    IF src = NoImage \/ SaveRaises(Normalize(src))
    THEN Failed
    ELSE [ok |-> TRUE, buf |-> EncodeJpeg(Normalize(src), q)]

FnFrame ==
    UNCHANGED << vars, histVars, seqVars, gridVars, jobVars, tailVars,
                 runVars >>

LoadImage(src) ==
    /\ fn_op = "none"
    /\ fn_op' = "load_image"
    /\ fn_in' = [src |-> src, arg |-> 0, ps |-> "none"]
    /\ fn_out' = load_image(src)
    /\ FnFrame

CreateThumbnail(src, max_width) ==
    /\ fn_op = "none"
    /\ fn_op' = "create_thumbnail"
    /\ fn_in' = [src |-> src, arg |-> max_width, ps |-> "none"]
    /\ fn_out' = create_thumbnail(src, max_width)
    /\ FnFrame

CompressImage(src, q) ==
    /\ fn_op = "none"
    /\ fn_op' = "compress_image"
    /\ fn_in' = [src |-> src, arg |-> q, ps |-> "none"]
    /\ fn_out' = CompressPixels(src, q)
    /\ FnFrame

\* The caller has taken the result.
FnReturn ==
    /\ fn_op # "none"
    /\ fn_op' = "none"
    /\ fn_in' = NoInput
    /\ fn_out' = NoResult
    /\ FnFrame

\* ---------------------------------------------------- page layout (pure)

\* Pixel sizes of the pages laid out (the layout depends on their ratio).
LayoutDims == {1, 2, 3, 5, 77, 100, 154, 160}

\* margin_mm values: the range of margin_spin (line 461) and its default.
LayoutMargins == {0, 10, 50}

\* page_size values: the three of _get_page_size_value and an unknown one.
LayoutPageSizes == {"original", "a4", "letter", "b5"}

\* What img2pdf's layout function and convert (line 104) make of one image
\* of imgw x imgh pixels under the layout chosen at lines 78-101: page size,
\* image size and the image's offsets from the page's left and bottom
\* edges, in tenths of a millimetre, the last three as fractions << n, d >>.
\* FitMode.into: the image takes the width of the page less twice the
\* border, or, where that makes it too high, the height of the page less
\* twice the border; convert centres it.
PlaceImage(layout, imgw, imgh) ==
    IF layout.fit # "into"
    THEN [ok |-> TRUE, fit |-> "native", page |-> << imgw, imgh >>,
          w |-> << imgw, 1 >>, h |-> << imgh, 1 >>,
          x |-> << 0, 1 >>, y |-> << 0, 1 >>]
    ELSE LET pagewidth == layout.pagesize[1]
             pageheight == layout.pagesize[2]
             border == 10 * layout.border
             fitwidth == pagewidth - 2 * border
             fitheight == pageheight - 2 * border
             toohigh == fitwidth * imgh > fitheight * imgw
             w == IF toohigh THEN << fitheight * imgw, imgh >>
                             ELSE << fitwidth, 1 >>
             h == IF toohigh THEN << fitheight, 1 >>
                             ELSE << fitwidth * imgh, imgw >>
         IN  IF fitwidth < 0 \/ fitheight < 0
             THEN Failed
             ELSE [ok |-> TRUE, fit |-> "into",
                   page |-> << pagewidth, pageheight >>,
                   w |-> w, h |-> h,
                   x |-> << pagewidth * w[2] - w[1], 2 * w[2] >>,
                   y |-> << pageheight * h[2] - h[1], 2 * h[2] >>]

LayoutPage(ps, margin, imgw, imgh) ==
    /\ fn_op = "none"
    /\ fn_op' = "layout"
    /\ fn_in' = [src |-> [w |-> imgw, h |-> imgh, mode |-> "RGB",
                          px |-> "ink"],
                 arg |-> margin, ps |-> ps]
    /\ fn_out' = PlaceImage(LayoutFun(ps, margin), imgw, imgh)
    /\ FnFrame

NextFn ==
    \/ \E src \in SourceImages : LoadImage(src)
    \/ \E src \in ThumbSources, max_width \in ThumbWidths :
           CreateThumbnail(src, max_width)
    \/ \E src \in SourceImages, q \in CompressQualities : CompressImage(src, q)
    \/ \E ps \in LayoutPageSizes, margin \in LayoutMargins,
          imgw \in LayoutDims, imgh \in LayoutDims :
           LayoutPage(ps, margin, imgw, imgh)
    \/ FnReturn

SpecFn == InitWindow /\ [][NextFn]_allVars

\* A thumbnail was asked of a source that decodes.
ThumbnailMade == fn_op = "create_thumbnail" /\ fn_in.src # NoImage

\* C13: a thumbnail of a source that decodes is an encoded image of width W
\* and of height at most floor(W * 1.6).
C13_ThumbnailSize ==
    ThumbnailMade =>
        /\ fn_out.ok
        /\ fn_out.buf.w = fn_in.arg
        /\ fn_out.buf.h <= (8 * fn_in.arg) \div 5

\* round(n / d), halves upwards
Round(n, d) == (2 * n + d) \div (2 * d)

\* C14: for origH/origW <= 1.6 the thumbnail is not cropped and its height
\* is round(origH * W / origW).
C14_UncroppedHeightRounded ==
    (ThumbnailMade /\ 5 * fn_in.src.h <= 8 * fn_in.src.w) =>
        /\ fn_out.ok
        /\ ~fn_out.cropped
        /\ fn_out.buf.h = Round(fn_in.src.h * fn_in.arg, fn_in.src.w)

Normalized ==
    IF fn_op = "load_image" THEN fn_out.img ELSE DecodeJpeg(fn_out.buf)

\* C16: what load_image, create_thumbnail and compress_image hand back is a
\* flat RGB image: a transparent pixel of an RGBA, P or LA source has become
\* white on a canvas of the image's size, any other mode was converted
\* directly (its stored colour kept), and no alpha or palette is left.
C16_NormalizedIsOpaqueRgb ==
    (fn_op \in {"load_image", "create_thumbnail", "compress_image"}
        /\ fn_out.ok) =>
        /\ Normalized.mode = "RGB"
        /\ Normalized.px \in {"ink", "white"}
        /\ (fn_in.src.mode \in {"RGBA", "P", "LA"} /\ fn_in.src.px = "clear")
              => Normalized.px = "white"
        /\ (fn_in.src.mode \notin {"RGBA", "P", "LA"})
              => Normalized.px = "ink"
        /\ fn_in.src.px = "ink" => Normalized.px = "ink"
        /\ fn_op # "create_thumbnail"
              => /\ Normalized.w = fn_in.src.w
                 /\ Normalized.h = fn_in.src.h

\* An LA source with a transparent pixel, compressed: the pixel is white.
C16_Witness ==
    /\ fn_op = "compress_image"
    /\ fn_in.src.mode = "LA"
    /\ fn_in.src.px = "clear"
    /\ fn_out.ok
    /\ DecodeJpeg(fn_out.buf).px = "white"

\* A source that decodes was compressed.
Compressed == fn_op = "compress_image" /\ fn_in.src # NoImage

\* C17 as stated: every source that decodes compresses to a buffer that
\* decodes to an image of the source's width and height.
C17_Original ==
    Compressed =>
        /\ fn_out.ok
        /\ DecodeJpeg(fn_out.buf).w = fn_in.src.w
        /\ DecodeJpeg(fn_out.buf).h = fn_in.src.h

\* C17: compress never resizes: the buffer it returns for a source that
\* decodes is either empty, the source having a side JPEG cannot hold, or
\* decodes to an image of exactly the source's width and height.
C17_CompressKeepsSize ==
    Compressed =>
        IF fn_in.src.w > 65500 \/ fn_in.src.h > 65500
        THEN ~fn_out.ok
        ELSE /\ fn_out.ok
             /\ DecodeJpeg(fn_out.buf).w = fn_in.src.w
             /\ DecodeJpeg(fn_out.buf).h = fn_in.src.h

\* A 1000 x 65500 strip compressed at quality 10 keeps its size.
C17_Witness ==
    /\ Compressed
    /\ fn_in.src.w = 1000
    /\ fn_in.src.h = 65500
    /\ fn_in.arg = 10
    /\ fn_out.ok
    /\ fn_out.buf.h = 65500

\* A page was laid out under a fixed page size.
FixedLayout == fn_op = "layout" /\ fn_in.ps \in {"a4", "letter"}

\* C18: under fixed A4 (Letter) with margin M the page is 210 x 297 mm
\* (215.9 x 279.4 mm), the image keeps its aspect ratio, lies at least M
\* from each edge of the page and is no larger than the page less 2M on
\* either axis.
C18_FixedPageInsetImage ==
    FixedLayout =>
        LET M == 10 * fn_in.arg
            pw == fn_out.page[1]
            ph == fn_out.page[2]
            w == fn_out.w
            h == fn_out.h
            x == fn_out.x
            y == fn_out.y
        IN  /\ fn_out.ok
            /\ fn_in.ps = "a4" => fn_out.page = << 2100, 2970 >>
            /\ fn_in.ps = "letter" => fn_out.page = << 2159, 2794 >>
            /\ w[1] * h[2] * fn_in.src.h = h[1] * w[2] * fn_in.src.w
            /\ w[1] <= (pw - 2 * M) * w[2]
            /\ h[1] <= (ph - 2 * M) * h[2]
            /\ x[1] >= M * x[2]
            /\ y[1] >= M * y[2]
            /\ x[1] * w[2] + w[1] * x[2] <= (pw - M) * x[2] * w[2]
            /\ y[1] * h[2] + h[1] * y[2] <= (ph - M) * y[2] * h[2]

\* A tall page on Letter with a 10 mm margin: the height is the limit.
C18_Witness ==
    /\ FixedLayout
    /\ fn_in.ps = "letter"
    /\ fn_in.arg = 10
    /\ fn_in.src.w = 1
    /\ fn_in.src.h = 160
    /\ fn_out.ok
    /\ fn_out.h = << 2594, 1 >>
    /\ fn_out.x[1] > 100 * fn_out.x[2]

\* ---------------------------------------------------------------- claims

Last(s) == s[Len(s)]

\* compress_image succeeds on this path.
Decodable(p) == fs[p] = "image"

\* The source path of each page of a list of compressed buffers.
Sources(images) == [k \in DOMAIN images |-> images[k][1].src]

\* Number of inputs of the call whose compression fails.
NumFailed == Cardinality({k \in DOMAIN image_paths : ~Decodable(image_paths[k])})

\* Positions of the call after the per-page loop and the page test.
Assembling == {"layout", "convert", "open", "write", "final"}

\* The call still has the output file as it found it.
OutputUntouched ==
    /\ opens = 0
    /\ writes = 0
    /\ out_file = [state |-> output_before, data |-> NoPdf]

\* C1: in a call that succeeds, the pages handed to assembly, and the pages
\* of the document written, are the input paths whose compression succeeded,
\* in input order, one page per such input; with all N inputs valid the
\* document has the N inputs as its pages, in input order.
C1_PagesAreValidInputsInOrder ==
    /\ pc \in Assembling =>
           Sources(processed_images) = SelectSeq(image_paths, Decodable)
    /\ (pc = "returned" /\ result = "True") =>
           /\ Sources(out_file.data.pages) = SelectSeq(image_paths, Decodable)
           /\ out_file.data.pages = processed_images
           /\ (NumFailed = 0 =>
                  /\ Len(out_file.data.pages) = Len(image_paths)
                  /\ Sources(out_file.data.pages) = image_paths)

C1_Witness ==
    /\ pc = "returned"
    /\ result = "True"
    /\ image_paths = << "p3", "p2", "p1" >>
    /\ ~Decodable("p2")
    /\ Sources(out_file.data.pages) = << "p3", "p1" >>

\* C2: when k of the N inputs fail to compress, 1 <= k < N, the loop still
\* visits every input, N-k pages reach assembly, and the call returns
\* success with a document of N-k pages whenever no exception is raised in
\* layout, assembly or the file write.
C2_FailedPageSkipped ==
    (NumFailed >= 1 /\ NumFailed < Len(image_paths)) =>
        /\ pc \in Assembling \cup {"except", "returned"} =>
               /\ i = Len(image_paths)
               /\ Len(processed_images) = Len(image_paths) - NumFailed
        /\ (pc = "returned" /\ exc = "") =>
               /\ result = "True"
               /\ Len(out_file.data.pages) = Len(image_paths) - NumFailed

C2_Witness ==
    /\ pc = "returned"
    /\ result = "True"
    /\ Len(image_paths) = 3
    /\ NumFailed = 2
    /\ Len(out_file.data.pages) = 1

\* C3: a call with an empty path list returns failure straight from its
\* entry: it processes no page, reports nothing and never opens or writes
\* the output file.
C3_EmptyListRejected ==
    (pc # "idle" /\ image_paths = << >>) =>
        /\ pc \in {"entry", "returned"}
        /\ pc = "returned" => result = "False"
        /\ i = 0
        /\ processed_images = << >>
        /\ reported = << >>
        /\ OutputUntouched

C3_Witness ==
    /\ pc = "returned"
    /\ image_paths = << >>
    /\ result = "False"
    /\ output_before = "old"
    /\ out_file.state = "old"

\* C4: when every input of a non-empty call fails to compress, the call
\* returns failure and the output file is never opened or written.
C4_NoValidPagesFails ==
    (pc # "idle" /\ image_paths # << >> /\ NumFailed = Len(image_paths)) =>
        /\ pc \in {"entry", "report", "compress", "returned"}
        /\ processed_images = << >>
        /\ pc = "returned" => (result = "False" /\ i = Len(image_paths))
        /\ OutputUntouched

C4_Witness ==
    /\ pc = "returned"
    /\ Len(image_paths) = 3
    /\ NumFailed = 3
    /\ result = "False"
    /\ output_before = "old"
    /\ out_file.state = "old"

\* The call returned failure because no page survived the loop.
FailedNoValidPages ==
    /\ pc = "returned"
    /\ result = "False"
    /\ image_paths # << >>
    /\ processed_images = << >>
    /\ exc = ""

\* The call returned failure because the open or the write of the output
\* file raised.
FailedOnOutputIO ==
    /\ pc = "returned"
    /\ result = "False"
    /\ exc \in {"open", "write"}

NumFailureReports ==
    Cardinality({k \in DOMAIN reported : reported[k].kind = "failed"})

\* C6: an exception raised in the try block (layout selection, assembly,
\* the open or the write of the output file) never leaves the call: the call
\* ends with a return value, that value is failure, and its last report, the
\* only failure report of the call, carries the error text; a registered
\* observer receives it as its last event.
C6_ExceptionsCaught ==
    /\ pc = "returned" => result \in {"True", "False"}
    /\ (pc = "returned" /\ exc # "") =>
           /\ result = "False"
           /\ reported # << >>
           /\ Last(reported) = FailureEvent(exc)
           /\ NumFailureReports = 1
           /\ progress_callback # "None" =>
                  (events # << >> /\ Last(events) = FailureEvent(exc))

C6_Witness ==
    /\ pc = "returned"
    /\ exc = "convert"
    /\ result = "False"
    /\ Last(reported) = FailureEvent("convert")

\* C7 as stated: in one call the completedCount of each event is strictly
\* greater than that of the event before it, and never exceeds totalCount.
C7_Original ==
    /\ \A k \in DOMAIN events : events[k].current <= events[k].total
    /\ \A k \in 2..Len(events) : events[k].current > events[k - 1].current

\* C7, amended: completedCount never exceeds totalCount in any event; the
\* per-page events count 1, 2, ..., N, each one more than the event before;
\* the assembling and the completion event repeat the count N of the event
\* before them; a failure event is the last event and carries (0, 0).
C7_ProgressCounts ==
    /\ \A k \in DOMAIN events : events[k].current <= events[k].total
    /\ \A k \in DOMAIN events :
           LET e == events[k] IN
           /\ e.kind = "processing" =>
                  /\ e.current = k
                  /\ e.total = Len(image_paths)
           /\ e.kind \in {"generating", "done"} =>
                  /\ k > 1
                  /\ e.current = events[k - 1].current
                  /\ e.current = Len(image_paths)
                  /\ e.total = Len(image_paths)
           /\ e.kind = "failed" =>
                  /\ k = Len(events)
                  /\ e.current = 0
                  /\ e.total = 0

C7_Witness ==
    /\ pc = "returned"
    /\ result = "True"
    /\ Len(image_paths) = 3
    /\ Len(events) = 5
    /\ events[3].current = 3
    /\ events[4].current = 3
    /\ events[5].current = 3

\* The per-page events delivered so far.
PageEvents == {k \in DOMAIN events : events[k].kind = "processing"}

C9_SingleFinalWrite ==
    /\ opens <= 1
    /\ writes <= opens
    /\ opens = 0 => OutputUntouched
    /\ opens = 1 =>
           /\ pc \in {"write", "final", "except", "returned"}
           /\ i = Len(image_paths)
           /\ image_paths # << >>
           /\ pdf_bytes = Convert(processed_images, layout_fun)
           /\ layout_fun = LayoutFun(page_size, margin_mm)
           /\ out_file.state \in {"empty", "partial", "complete"}
           /\ out_file.state = "complete" => out_file.data = pdf_bytes
    /\ (pc = "returned" /\ result = "False" /\ exc # "write") => OutputUntouched

C9_Witness ==
    /\ pc = "returned"
    /\ result = "False"
    /\ exc = "open"
    /\ output_before = "old"
    /\ out_file.state = "old"
    /\ Len(image_paths) = 2

\* Idle, Processing, Completed or Failed, from the position of the call.
Phase ==
    CASE pc = "idle" -> "Idle"
      [] pc = "returned" /\ result = "True" -> "Completed"
      [] pc = "returned" /\ result = "False" -> "Failed"
      [] pc = "returned" -> "Raised"
      [] OTHER -> "Processing"

\* The output file holds the assembled document and the completion event
\* (total, total) was the last report.
WrittenAndCompleted ==
    /\ writes = 1
    /\ out_file = [state |-> "complete", data |-> pdf_bytes]
    /\ reported # << >>
    /\ Last(reported) = DoneEvent(Len(image_paths))
    /\ Last(reported).current = Last(reported).total

\* What holds of the outcome in every state of a call.
OutcomeInvariant ==
    /\ Phase \in {"Idle", "Processing", "Completed", "Failed"}
    /\ Phase = "Idle" => result = "none"
    /\ Phase = "Processing" => result = "none"
    /\ Phase = "Completed" => WrittenAndCompleted
    /\ Phase = "Failed" => ~WrittenAndCompleted
    /\ i <= Len(image_paths)
    /\ Len(processed_images) <= i
    /\ Cardinality({k \in DOMAIN reported :
                       reported[k].kind \in {"done", "failed"}})
           = (IF Phase \in {"Completed", "Failed"}
                 /\ image_paths # << >> /\ processed_images # << >>
              THEN 1 ELSE 0)

\* The steps between phases; within Processing the loop index never goes
\* back (no input is compressed twice).
PhaseStep ==
    \/ /\ Phase' = Phase
       /\ i' >= i
    \/ << Phase, Phase' >> \in
           { << "Idle", "Processing" >>,
             << "Processing", "Completed" >>,
             << "Processing", "Failed" >>,
             << "Completed", "Idle" >>,
             << "Failed", "Idle" >> }

\* C10: a call goes Idle -> Processing -> Completed or Failed and only then
\* back to Idle; it ends with one return value, success exactly when the
\* output file was written and the completion event (total, total) was the
\* last report, failure in every other case; nothing is retried.
C10_OneTerminalOutcome == []OutcomeInvariant /\ [][PhaseStep]_vars

C10_Witness ==
    /\ Phase = "Completed"
    /\ WrittenAndCompleted
    /\ Len(image_paths) = 3
    /\ Len(reported) = 5


\* ------------------------------------------- the worker thread of a job

\* The settings widgets as _create_settings_panel leaves them (lines 448-476):
\* the first page size, no margin, quality 90.
PageSizeValue == "original"

MarginValue == 0

QualityValue == 90

\* PDFWorker.run, lines 45-51, on the thread _start_generation started: the
\* observer is registered and generate_pdf is entered with the worker's own
\* images and output path, and the page size, quality and margin the
\* widgets had.
WorkerRunBegins(before) ==
    /\ workers = 1
    /\ pc = "idle"
    /\ progress_callback' = "cb"
    /\ CallArgs(worker_job.images, before, PageSizeValue, QualityValue,
                MarginValue)
    /\ UNCHANGED fs
    /\ UNCHANGED others

\* PDFWorker.run, lines 49-56: generate_pdf has returned and finished is
\* emitted with its return value.
WorkerReturns ==
    /\ pc = "returned"
    /\ ReturnCore
    /\ EmitFinished(result = "True")
    /\ UNCHANGED << histVars, fnVars, seqVars, gridVars, tailVars >>

\* Images added, and sequences created, in a session with worker jobs.
MaxJobImages == 2

MaxJobSeqs == 2

\* The files are added in turn: p2, p1, p3, p2, ...
FileOrder == << "p2", "p1", "p3" >>

\* _add_images for one file, the next one, while few images have been added.
AddJobImage(p) ==
    /\ uuids < MaxJobImages
    /\ p = FileOrder[(uuids % Len(FileOrder)) + 1]
    /\ AddImages(<< p >>)

\* _add_sequence, while few sequences have been created.
AddJobSequence ==
    /\ sequence_counter < MaxJobSeqs
    /\ AddSequence

NextWorker ==
    \/ \E p \in Paths : AddJobImage(p)
    \/ \E image_id \in 1..MaxJobImages : RemoveImage(image_id)
    \/ ClearAll("Yes")
    \/ \E new_order \in SeqsUpTo(1..MaxJobImages, MaxJobImages) :
          OnOrderChanged(new_order)
    \/ AddJobSequence
    \/ \E sid \in 1..MaxJobSeqs : SwitchSequence(sid)
    \/ \E sid \in 1..MaxJobSeqs : DeleteSequence(sid, "Yes")
    \/ \E output_path \in {"", "out"} : GenerateCurrentPdf(output_path)
    \/ \E before \in OutBefore : WorkerRunBegins(before)
    \/ Entry
    \/ ReportPage
    \/ CompressPage
    \/ CheckPages
    \/ Layout
    \/ ConvertPdf
    \/ OpenOutput
    \/ WriteOutput
    \/ Finish
    \/ Except
    \/ WorkerReturns
    \/ OnFinished

SpecWorker == InitWindow /\ [][NextWorker]_allVars

\* The worker's list is the one built when the job was started, it stays as
\* it is while the worker runs, and generate_pdf works on it.
SnapshotKept ==
    /\ workers' > workers =>
           worker_job'.images =
               ExpectedJobList(
                   GetCurrentSequence(sequences, current_sequence_id).images)
    /\ (workers = 1 /\ workers' = 1) => worker_job' = worker_job
    /\ pc' # "idle" => image_paths' = worker_job'.images

\* The document a worker has written has the snapshot's paths as its pages,
\* in the snapshot's order.
DocumentFromSnapshot ==
    (pc = "returned" /\ result = "True") =>
        Sources(out_file.data.pages) = SelectSeq(worker_job.images, Decodable)

\* C25: a worker's job works on a snapshot of the path list taken when the
\* job was started: adding, removing, reordering or clearing images, and
\* switching or deleting sequences, while the worker runs change neither the
\* pages nor the page order of the document the job produces.
C25_WorkerUsesSnapshot == [][SnapshotKept]_allVars /\ []DocumentFromSnapshot

\* A worker has written a two-page document although the sequence it was
\* started from has been cleared meanwhile.
C25_Witness ==
    /\ pc = "returned"
    /\ result = "True"
    /\ Sources(out_file.data.pages) = << "p2", "p1" >>
    /\ sequences = << [id |-> 1, name |-> 1, images |-> << >>] >>


\* --------------------------------------------- the processing flag of a job

NextFlag ==
    \/ \E p \in Paths : AddJobImage(p)
    \/ ClearAll("Yes")
    \/ AddJobSequence
    \/ \E sid \in 1..MaxJobSeqs : SwitchSequence(sid)
    \/ \E output_path \in {"", "out"} : GenerateCurrentPdf(output_path)
    \/ \E before \in OutBefore : WorkerRunBegins(before)
    \/ Entry
    \/ ReportPage
    \/ CompressPage
    \/ CheckPages
    \/ Layout
    \/ ConvertPdf
    \/ OpenOutput
    \/ WriteOutput
    \/ Finish
    \/ Except
    \/ WorkerReturns
    \/ OnFinished
    \/ \E output_dir \in {"", OutputDir} : GenerateAllPdfs(output_dir)
    \/ AllGenerateBegins
    \/ \E success \in BOOLEAN : AllGenerateEnds(success)
    \/ AllWarningClosed

\* The worker thread gets to run: PDFWorker.run, from its start to the
\* emit of finished.
WorkerStep ==
    \/ \E before \in OutBefore : WorkerRunBegins(before)
    \/ Entry
    \/ ReportPage
    \/ CompressPage
    \/ CheckPages
    \/ Layout
    \/ ConvertPdf
    \/ OpenOutput
    \/ WriteOutput
    \/ Finish
    \/ Except
    \/ WorkerReturns

\* The main thread's event loop delivers a queued finished signal, and the
\* generate-all loop goes on: its generate_pdf call returns and its warning
\* is closed.
MainStep ==
    \/ OnFinished
    \/ AllGenerateBegins
    \/ \E success \in BOOLEAN : AllGenerateEnds(success)
    \/ AllWarningClosed

SpecFlag ==
    /\ InitWindow
    /\ [][NextFlag]_allVars
    /\ WF_allVars(WorkerStep)
    /\ WF_allVars(MainStep)

\* _update_ui's rule holds whenever the main thread is between handlers.
ButtonsFollowFlag ==
    /\ generate_btn =
           (GetCurrentSequence(sequences, current_sequence_id).images # << >>
                /\ ~is_processing)
    /\ generate_all_btn =
           ((\E k \in DOMAIN sequences : sequences[k].images # << >>)
                /\ ~is_processing)

\* A worker ends by emitting finished, once, with generate_pdf's return
\* value as the success flag, and finished is emitted at no other step.
EmitsOnce ==
    /\ (workers' < workers) = (Len(emitted') > Len(emitted))
    /\ workers' < workers =>
           /\ pc = "returned"
           /\ emitted' = Append(emitted, result = "True")

====
